---- MODULE Spec2Model ----
(***************************************************************************)
(* Hot-swap algorithm manager of the algorithm engine                      *)
(* (src/algorithm-engine/src/hot_swap.rs).                                 *)
(*                                                                         *)
(* The manager's fields are the shared state.  Every public method is      *)
(* split into the steps between which another caller can run: one step     *)
(* per lock acquisition of the method.  A caller is a task that calls the  *)
(* manager; pc[p] is its position inside the method it is executing and    *)
(* loc[p] the local variables of that method.                              *)
(***************************************************************************)
EXTENDS Integers, Sequences, FiniteSets, TLC

VARIABLES
    active,     \* active_algorithm : the engine serving requests
    staged,     \* staged_algorithm : Option<engine>
    status,     \* staging_status
    mstate,     \* migration_state
    report,     \* validation_results : Option<ValidationResults>
    metrics,    \* migration_metrics
    resets,     \* history: how many times start_migration has reset the metrics
    activeAtStart, \* history: the active engine when a migration last started
    promoted,   \* history: the engine the last finalize made active
    pc,         \* position of every caller
    loc,        \* local variables of the method a caller is executing
    ret         \* result of the last call a caller completed

vars == <<active, staged, status, mstate, report, metrics, resets, activeAtStart, promoted, pc, loc, ret>>

shared == <<active, staged, status, mstate, report, metrics>>

history == <<resets, activeAtStart, promoted>>

-----------------------------------------------------------------------------
(* Bounds of the model *)

NumCallers == 2         \* tasks calling the manager
MaxShadow == 51         \* shadow samples recorded or in flight per migration
MaxShadowErr == 3       \* failed shadow samples per migration
MaxMig == 2             \* gradual-migration samples recorded or in flight

Callers == 1 .. NumCallers
Driver == CHOOSE p \in Callers : \A q \in Callers : p <= q

-----------------------------------------------------------------------------
(* Engines *)

None == "none"

InitialEngine == "blake2s"
Candidates == {"algo1", "algo2"}
Engines == {InitialEngine} \cup Candidates

(* algo2 is an engine with a failure rate: its hash may fail *)
Flaky == {"algo2"}

HashOutcomes(e) == IF e \in Flaky THEN {TRUE, FALSE} ELSE {TRUE}

HashResult(e, ok) == [by |-> e, ok |-> ok]

(* format!("{}_{}", name, version): engines are told apart by their name *)
AlgorithmId(e) == e

-----------------------------------------------------------------------------
(* Types of the manager *)

StagingStatus ==
    {"NotStaged", "Staging", "ValidationInProgress", "ValidationPassed",
     "ValidationFailed", "Ready"}

St(tag) == [tag |-> tag, pct |-> 0]
ShadowMode(p) == [tag |-> "ShadowMode", pct |-> p]
GradualMigration(p) == [tag |-> "GradualMigration", pct |-> p]

Idle == St("Idle")
Finalizing == St("Finalizing")
Complete == St("Complete")
RollingBack == St("RollingBack")
RollbackComplete == St("RollbackComplete")
Failed == St("Failed")

(* percentages and rates are counted in 1/10000 *)
Scale == 10000
FullPercentage == 10000
gradual_percentages == <<100, 500, 1000, 2500, 5000, 7500, 10000>>
DefaultFirstPercentage == 500
max_error_rate == 500
ShadowSampleThreshold == 50
PerformanceThreshold == 8000

DefaultMetrics ==
    [started |-> FALSE, shadow_mode_errors |-> 0, shadow_mode_successes |-> 0,
     migration_errors |-> 0, migration_successes |-> 0,
     rate_num |-> 0, rate_den |-> 1]

(* ValidationResults; Option<ValidationResults> is a record whose field
   some tells Some from None *)
ValidationResults(compat, perf, sec, vectors, mem, errors, warnings) ==
    [some |-> TRUE, compatibility_check |-> compat, performance_benchmark |-> perf,
     security_validation |-> sec, test_vectors_passed |-> vectors,
     memory_requirements_met |-> mem, errors |-> errors, warnings |-> warnings]

NoReport == [ValidationResults(FALSE, 0, FALSE, FALSE, FALSE, <<>>, <<>>) EXCEPT !.some = FALSE]

NoState == St("none")
NoResult == [by |-> None, ok |-> FALSE]

(* HotSwapStatus, the snapshot built by get_status *)
NoSnap ==
    [active_algorithm |-> None, staged_algorithm |-> None,
     staging_status |-> None, migration_state |-> NoState,
     validation_results |-> NoReport]

(* locals of a method: op the public method, alg the engine it carries,
   name the name of the staged engine, st the migration state it read, res and sres the hash results of the
   active and of the staged engine, snap the snapshot get_status builds,
   results the report validate_staged_algorithm returned *)
NoLoc ==
    [op |-> None, alg |-> None, name |-> None, st |-> NoState,
     new_state |-> NoState, res |-> NoResult, sres |-> NoResult,
     snap |-> NoSnap, results |-> NoReport]

(* AlgorithmResult<T>: success with data, or error with a code *)
NoRet ==
    [op |-> None, ok |-> FALSE, code |-> None, st |-> NoState, res |-> NoResult,
     snap |-> NoSnap]

Success(op) == [NoRet EXCEPT !.op = op, !.ok = TRUE]
Error(op, code) == [NoRet EXCEPT !.op = op, !.code = code]

-----------------------------------------------------------------------------
(* AlgorithmHotSwapManager::new *)

Init ==
    /\ active = InitialEngine
    /\ staged = None
    /\ status = "NotStaged"
    /\ mstate = Idle
    /\ report = NoReport
    /\ metrics = DefaultMetrics
    /\ resets = 0
    /\ activeAtStart = None
    /\ promoted = None
    /\ pc = [p \in Callers |-> "idle"]
    /\ loc = [p \in Callers |-> NoLoc]
    /\ ret = [p \in Callers |-> NoRet]

-----------------------------------------------------------------------------
(* Helpers for the steps of a caller *)

Goto(p, label) == pc' = [pc EXCEPT ![p] = label]

SetLoc(p, l) == loc' = [loc EXCEPT ![p] = l]

Return(p, r) ==
    /\ pc' = [pc EXCEPT ![p] = "idle"]
    /\ loc' = [loc EXCEPT ![p] = NoLoc]
    /\ ret' = [ret EXCEPT ![p] = r]

(* finalize_migration keeps the write guard of staged_algorithm from the
   take() until the end of the if-let *)
StagedWriteHeld == \E q \in Callers : pc[q] \in {"fin_active", "fin_state", "fin_status"}

(* get_status builds its result in one expression: the read guards of
   staging_status and of migration_state live until the whole snapshot is
   built, and writers wait for them *)
StatusReadHeld == \E q \in Callers : pc[q] \in {"gs_state", "gs_report"}

StateReadHeld == \E q \in Callers : pc[q] = "gs_report"

(* hash_with_active_algorithm and hash_with_staged_algorithm call hash on
   the engine behind the read guard: the guard lives as long as the hash
   runs, and writers of the slot wait for it *)
ActiveReadHeld == \E q \in Callers : pc[q] = "hash_active"

StagedReadHeld == \E q \in Callers : pc[q] = "hash_staged"

-----------------------------------------------------------------------------
(* Validation pipeline *)

check_compatibility_by_name(name) == TRUE
benchmark_algorithm_by_name(name) == 9000
validate_security_by_name(name) == TRUE
run_test_vectors_by_name(name) == TRUE
check_memory_requirements_by_name(name) == TRUE

(* the body of validate_staged_algorithm after the candidate's name is read:
   the five results, one error per failed blocking check, one warning per
   failed advisory check *)
BuildResults(compat, perf, sec, vectors, mem) ==
    ValidationResults(compat, perf, sec, vectors, mem,
        (IF compat THEN <<>> ELSE <<"Compatibility check failed">>)
          \o (IF sec THEN <<>> ELSE <<"Security validation failed">>)
          \o (IF vectors THEN <<>> ELSE <<"Test vectors failed">>),
        (IF perf < PerformanceThreshold
            THEN <<"Performance below expected threshold">> ELSE <<>>)
          \o (IF mem THEN <<>> ELSE <<"High memory usage detected">>))

RunValidation(name) ==
    BuildResults(check_compatibility_by_name(name),
                 benchmark_algorithm_by_name(name),
                 validate_security_by_name(name),
                 run_test_vectors_by_name(name),
                 check_memory_requirements_by_name(name))

(* a verdict that also wants the memory check to pass *)
is_validation_successfulMut(results) ==
    /\ results.compatibility_check
    /\ results.security_validation
    /\ results.test_vectors_passed
    /\ results.memory_requirements_met
    /\ results.errors = <<>>

is_validation_successful(results) ==
    /\ results.compatibility_check
    /\ results.security_validation
    /\ results.test_vectors_passed
    /\ results.errors = <<>>

-----------------------------------------------------------------------------
(* stage_algorithm *)

(* a status check that forgets the validated candidate *)
StagingBusyMut(s) ==
    s \in {"Staging", "ValidationInProgress", "Ready"}

(* the statuses for which stage_algorithm refuses *)
StagingBusy(s) ==
    s \in {"Staging", "ValidationInProgress", "ValidationPassed", "Ready"}

(* the status check; a refused call returns at once *)
StageCheck(p, alg) ==
    /\ pc[p] = "idle"
    /\ IF StagingBusy(status)
          THEN Return(p, Error("stage", "STAGING_IN_PROGRESS"))
          ELSE /\ Goto(p, "stage_set")
               /\ SetLoc(p, [NoLoc EXCEPT !.op = "stage", !.alg = alg])
               /\ ret' = [ret EXCEPT ![p] = NoRet]
    /\ UNCHANGED <<shared, history>>

StageSetStaging(p) ==
    /\ pc[p] = "stage_set"
    /\ ~StatusReadHeld
    /\ status' = "Staging"
    /\ Goto(p, "stage_store")
    /\ UNCHANGED <<active, staged, mstate, report, metrics, history, loc, ret>>

(* a store that keeps the candidate already in the slot *)
StageStoreMut(p) ==
    /\ pc[p] = "stage_store"
    /\ ~StagedWriteHeld
    /\ ~StagedReadHeld
    /\ staged' = IF staged = None THEN loc[p].alg ELSE staged
    /\ Goto(p, "stage_vip")
    /\ UNCHANGED <<active, status, mstate, report, metrics, history, loc, ret>>

StageStore(p) ==
    /\ pc[p] = "stage_store"
    /\ ~StagedWriteHeld
    /\ ~StagedReadHeld
    /\ staged' = loc[p].alg
    /\ Goto(p, "stage_vip")
    /\ UNCHANGED <<active, status, mstate, report, metrics, history, loc, ret>>

StageSetValidating(p) ==
    /\ pc[p] = "stage_vip"
    /\ ~StatusReadHeld
    /\ status' = "ValidationInProgress"
    /\ Goto(p, "val_read")
    /\ UNCHANGED <<active, staged, mstate, report, metrics, history, loc, ret>>

(* validate_staged_algorithm reads the name of the staged engine, or fails
   with "No algorithm staged"; then it waits for the probes *)
ValidateRead(p) ==
    /\ pc[p] = "val_read"
    /\ ~StagedWriteHeld
    /\ IF staged = None
          THEN /\ Goto(p, "val_err")
               /\ UNCHANGED loc
          ELSE /\ Goto(p, "val_wait")
               /\ SetLoc(p, [loc[p] EXCEPT !.name = staged])
    /\ UNCHANGED <<shared, history, ret>>

(* the probes are over: the report is stored *)
StageStoreReport(p) ==
    /\ pc[p] = "val_wait"
    /\ report' = RunValidation(loc[p].name)
    /\ Goto(p, "stage_verdict")
    /\ UNCHANGED <<active, staged, status, mstate, metrics, history, loc, ret>>

StageVerdict(p) ==
    /\ pc[p] = "stage_verdict"
    /\ ~StatusReadHeld
    /\ IF is_validation_successful(RunValidation(loc[p].name))
          THEN /\ status' = "ValidationPassed"
               /\ Return(p, [Success("stage") EXCEPT !.code = AlgorithmId(loc[p].alg)])
          ELSE /\ status' = "ValidationFailed"
               /\ Return(p, Error("stage", "VALIDATION_FAILED"))
    /\ UNCHANGED <<active, staged, mstate, report, metrics, history>>

StageValidationError(p) ==
    /\ pc[p] = "val_err"
    /\ ~StatusReadHeld
    /\ status' = "ValidationFailed"
    /\ Return(p, Error("stage", "VALIDATION_ERROR"))
    /\ UNCHANGED <<active, staged, mstate, report, metrics, history>>

(* stage_algorithm when no other caller empties the candidate slot during
   the call: validate_staged_algorithm then finds the engine it stored *)
StageUncontended(p) ==
    \/ \E alg \in Candidates : StageCheck(p, alg)
    \/ StageSetStaging(p)
    \/ StageStore(p)
    \/ StageSetValidating(p)
    \/ ValidateRead(p)
    \/ StageStoreReport(p)
    \/ StageVerdict(p)

Stage(p) ==
    \/ StageUncontended(p)
    \/ StageValidationError(p)

-----------------------------------------------------------------------------
(* start_migration *)

(* a readiness check that lets a manager with nothing staged through *)
ReadyForMigrationMut(s) == s \in {"ValidationPassed", "Ready", "NotStaged"}

ReadyForMigration(s) == s \in {"ValidationPassed", "Ready"}

StartCheckStatus(p) ==
    /\ pc[p] = "idle"
    /\ IF ~ReadyForMigration(status)
          THEN Return(p, Error("start", "NOT_READY_FOR_MIGRATION"))
          ELSE /\ Goto(p, "start_state")
               /\ SetLoc(p, [NoLoc EXCEPT !.op = "start"])
               /\ ret' = [ret EXCEPT ![p] = NoRet]
    /\ UNCHANGED <<shared, history>>

StartCheckState(p) ==
    /\ pc[p] = "start_state"
    /\ IF mstate # Idle
          THEN Return(p, Error("start", "MIGRATION_IN_PROGRESS"))
          ELSE /\ Goto(p, "start_metrics")
               /\ UNCHANGED <<loc, ret>>
    /\ UNCHANGED <<shared, history>>

(* a reset that keeps the shadow counters of the migration before *)
StartResetMetricsMut(p) ==
    /\ pc[p] = "start_metrics"
    /\ metrics' = [DefaultMetrics EXCEPT
                      !.started = TRUE,
                      !.shadow_mode_successes = metrics.shadow_mode_successes,
                      !.shadow_mode_errors = metrics.shadow_mode_errors]
    /\ resets' = resets + 1
    /\ Goto(p, "start_write")
    /\ UNCHANGED <<active, staged, status, mstate, report, activeAtStart, promoted, loc, ret>>

StartResetMetrics(p) ==
    /\ pc[p] = "start_metrics"
    /\ metrics' = [DefaultMetrics EXCEPT !.started = TRUE]
    /\ resets' = resets + 1
    /\ Goto(p, "start_write")
    /\ UNCHANGED <<active, staged, status, mstate, report, activeAtStart, promoted, loc, ret>>

StartShadowMode(p) ==
    /\ pc[p] = "start_write"
    /\ ~StateReadHeld
    /\ mstate' = ShadowMode(FullPercentage)
    /\ Return(p, [Success("start") EXCEPT !.code = "migration_id"])
    /\ activeAtStart' = active
    /\ promoted' = None
    /\ UNCHANGED <<active, staged, status, report, metrics, resets>>

StartMigration(p) ==
    \/ StartCheckStatus(p)
    \/ StartCheckState(p)
    \/ StartResetMetrics(p)
    \/ StartShadowMode(p)

-----------------------------------------------------------------------------
(* rollback_migration, called by a caller or by advance_migration *)

(* a rollback that refuses when the last migration was already rolled back *)
RollbackBeginMut(p) ==
    /\ pc[p] \in {"idle", "rb_begin"}
    /\ ~StateReadHeld
    /\ IF pc[p] = "idle" /\ mstate = RollbackComplete
          THEN /\ Return(p, Error("rollback", "NO_MIGRATION"))
               /\ UNCHANGED mstate
          ELSE /\ mstate' = RollingBack
               /\ Goto(p, "rb_staged")
               /\ IF pc[p] = "idle"
                     THEN /\ SetLoc(p, [NoLoc EXCEPT !.op = "rollback"])
                          /\ ret' = [ret EXCEPT ![p] = NoRet]
                     ELSE UNCHANGED <<loc, ret>>
    /\ UNCHANGED <<active, staged, status, report, metrics, history>>

RollbackBegin(p) ==
    /\ pc[p] \in {"idle", "rb_begin"}
    /\ ~StateReadHeld
    /\ mstate' = RollingBack
    /\ Goto(p, "rb_staged")
    /\ IF pc[p] = "idle"
          THEN /\ SetLoc(p, [NoLoc EXCEPT !.op = "rollback"])
               /\ ret' = [ret EXCEPT ![p] = NoRet]
          ELSE UNCHANGED <<loc, ret>>
    /\ UNCHANGED <<active, staged, status, report, metrics, history>>

(* a rollback that leaves the candidate in its slot *)
RollbackClearStagedMut(p) ==
    /\ pc[p] = "rb_staged"
    /\ ~StagedWriteHeld
    /\ Goto(p, "rb_status")
    /\ UNCHANGED <<shared, history, loc, ret>>

RollbackClearStaged(p) ==
    /\ pc[p] = "rb_staged"
    /\ ~StagedWriteHeld
    /\ ~StagedReadHeld
    /\ staged' = None
    /\ Goto(p, "rb_status")
    /\ UNCHANGED <<active, status, mstate, report, metrics, history, loc, ret>>

(* a rollback that leaves the staging status as it was *)
RollbackClearStatusMut(p) ==
    /\ pc[p] = "rb_status"
    /\ Goto(p, "rb_report")
    /\ UNCHANGED <<shared, history, loc, ret>>

RollbackClearStatus(p) ==
    /\ pc[p] = "rb_status"
    /\ ~StatusReadHeld
    /\ status' = "NotStaged"
    /\ Goto(p, "rb_report")
    /\ UNCHANGED <<active, staged, mstate, report, metrics, history, loc, ret>>

(* a rollback that also puts the initial engine back into the active slot *)
RollbackClearReportMut(p) ==
    /\ pc[p] = "rb_report"
    /\ report' = NoReport
    /\ active' = InitialEngine
    /\ Goto(p, "rb_done")
    /\ UNCHANGED <<staged, status, mstate, metrics, history, loc, ret>>

RollbackClearReport(p) ==
    /\ pc[p] = "rb_report"
    /\ report' = NoReport
    /\ Goto(p, "rb_done")
    /\ UNCHANGED <<active, staged, status, mstate, metrics, history, loc, ret>>

(* a rollback that reports the failed guard as an error *)
RollbackComplete_Mut(p) ==
    /\ pc[p] = "rb_done"
    /\ ~StateReadHeld
    /\ mstate' = RollbackComplete
    /\ Return(p, IF loc[p].op = "advance"
                    THEN [Error(loc[p].op, "MIGRATION_ROLLED_BACK") EXCEPT !.st = RollbackComplete]
                    ELSE [Success(loc[p].op) EXCEPT !.st = RollbackComplete])
    /\ UNCHANGED <<active, staged, status, report, metrics, history>>

RollbackComplete_(p) ==
    /\ pc[p] = "rb_done"
    /\ ~StateReadHeld
    /\ mstate' = RollbackComplete
    /\ Return(p, [Success(loc[p].op) EXCEPT !.st = RollbackComplete])
    /\ UNCHANGED <<active, staged, status, report, metrics, history>>

RollbackSteps(p) ==
    \/ RollbackClearStaged(p)
    \/ RollbackClearStatus(p)
    \/ RollbackClearReport(p)
    \/ RollbackComplete_(p)

-----------------------------------------------------------------------------
(* finalize_migration, called by advance_migration *)

FinalizeBegin(p) ==
    /\ pc[p] = "fin_begin"
    /\ ~StateReadHeld
    /\ mstate' = Finalizing
    /\ Goto(p, "fin_take")
    /\ UNCHANGED <<active, staged, status, report, metrics, history, loc, ret>>

(* staged_algorithm.write().take(): the guard stays held when an engine was
   taken *)
FinalizeTake(p) ==
    /\ pc[p] = "fin_take"
    /\ ~StagedWriteHeld
    /\ ~StagedReadHeld
    /\ IF staged = None
          THEN /\ Return(p, Error(loc[p].op, "NO_STAGED_ALGORITHM"))
               /\ UNCHANGED staged
          ELSE /\ staged' = None
               /\ SetLoc(p, [loc[p] EXCEPT !.alg = staged])
               /\ Goto(p, "fin_active")
               /\ UNCHANGED ret
    /\ UNCHANGED <<active, status, mstate, report, metrics, history>>

(* a swap that moves the old engine out and leaves the active slot empty *)
FinalizeSwapMut(p) ==
    /\ pc[p] = "fin_active"
    /\ ~ActiveReadHeld
    /\ active' = None
    /\ promoted' = loc[p].alg
    /\ Goto(p, "fin_state")
    /\ UNCHANGED <<staged, status, mstate, report, metrics, resets, activeAtStart, loc, ret>>

FinalizeSwap(p) ==
    /\ pc[p] = "fin_active"
    /\ ~ActiveReadHeld
    /\ active' = loc[p].alg
    /\ promoted' = loc[p].alg
    /\ Goto(p, "fin_state")
    /\ UNCHANGED <<staged, status, mstate, report, metrics, resets, activeAtStart, loc, ret>>

FinalizeComplete(p) ==
    /\ pc[p] = "fin_state"
    /\ ~StateReadHeld
    /\ mstate' = Complete
    /\ Goto(p, "fin_status")
    /\ UNCHANGED <<active, staged, status, report, metrics, history, loc, ret>>

(* a finalize that leaves the staging status as it was *)
FinalizeNotStagedMut(p) ==
    /\ pc[p] = "fin_status"
    /\ Return(p, [Success(loc[p].op) EXCEPT !.st = Complete])
    /\ UNCHANGED <<shared, history>>

FinalizeNotStaged(p) ==
    /\ pc[p] = "fin_status"
    /\ ~StatusReadHeld
    /\ status' = "NotStaged"
    /\ Return(p, [Success(loc[p].op) EXCEPT !.st = Complete])
    /\ UNCHANGED <<active, staged, mstate, report, metrics, history>>

FinalizeSteps(p) ==
    \/ FinalizeBegin(p)
    \/ FinalizeTake(p)
    \/ FinalizeSwap(p)
    \/ FinalizeComplete(p)
    \/ FinalizeNotStaged(p)

-----------------------------------------------------------------------------
(* process_hash_request *)

(* (hash of the thread id) % 10000, as drawn by should_use_staged_algorithm *)
ThreadHashes == {0, 250, 9999}

should_use_staged_algorithm(h, percentage) == h < percentage

ShadowTotal == metrics.shadow_mode_successes + metrics.shadow_mode_errors
MigrationTotal == metrics.migration_successes + metrics.migration_errors

RequestsInFlight ==
    Cardinality({q \in Callers :
        pc[q] \in {"proc", "proc_shadow", "proc_shadow_rec", "proc_fallback", "proc_mig_rec",
                   "hash_active", "hash_staged"}})

ShadowFailuresInFlight ==
    Cardinality({q \in Callers : pc[q] = "proc_shadow_rec" /\ ~loc[q].sres.ok})

HashReturn(res) ==
    IF res.ok THEN [Success("process") EXCEPT !.res = res]
              ELSE [Error("process", "HASH_ERROR") EXCEPT !.res = res]

ProcessRead(p) ==
    /\ pc[p] = "idle"
    /\ mstate.tag = "ShadowMode" => ShadowTotal + RequestsInFlight < MaxShadow
    /\ mstate.tag = "GradualMigration" => MigrationTotal + RequestsInFlight < MaxMig
    /\ Goto(p, "proc")
    /\ SetLoc(p, [NoLoc EXCEPT !.op = "process", !.st = mstate])
    /\ ret' = [ret EXCEPT ![p] = NoRet]
    /\ UNCHANGED <<shared, history>>

(* a request outside a migration that records its outcome as a migration
   outcome *)
ProcessActiveOnlyMut(p) ==
    /\ \/ pc[p] = "proc" /\ loc[p].st.tag \notin {"ShadowMode", "GradualMigration"}
       \/ pc[p] = "proc_fallback"
    /\ \E ok \in HashOutcomes(active) :
          /\ Return(p, HashReturn(HashResult(active, ok)))
          /\ metrics' = IF MigrationTotal < MaxMig
                           THEN [metrics EXCEPT !.migration_successes = @ + 1]
                           ELSE metrics
    /\ UNCHANGED <<active, staged, status, mstate, report, history>>

(* hash_with_active_algorithm is the whole answer: Idle and the other
   states, and the fallback of GradualMigration when no engine is staged *)
ProcessActiveOnly(p) ==
    /\ \/ pc[p] = "proc" /\ loc[p].st.tag \notin {"ShadowMode", "GradualMigration"}
       \/ pc[p] = "proc_fallback"
    /\ \E ok \in HashOutcomes(active) : Return(p, HashReturn(HashResult(active, ok)))
    /\ UNCHANGED <<shared, history>>

ProcessShadowActive(p) ==
    /\ pc[p] = "proc"
    /\ loc[p].st.tag = "ShadowMode"
    /\ \E ok \in HashOutcomes(active), h \in ThreadHashes :
          IF should_use_staged_algorithm(h, loc[p].st.pct)
            THEN /\ SetLoc(p, [loc[p] EXCEPT !.res = HashResult(active, ok)])
                 /\ Goto(p, "proc_shadow")
                 /\ UNCHANGED ret
            ELSE Return(p, HashReturn(HashResult(active, ok)))
    /\ UNCHANGED <<shared, history>>

ProcessShadowStaged(p) ==
    /\ pc[p] = "proc_shadow"
    /\ ~StagedWriteHeld
    /\ IF staged = None
          THEN Return(p, HashReturn(loc[p].res))
          ELSE \E ok \in HashOutcomes(staged) :
                 /\ ok \/ metrics.shadow_mode_errors + ShadowFailuresInFlight < MaxShadowErr
                 /\ SetLoc(p, [loc[p] EXCEPT !.sres = HashResult(staged, ok)])
                 /\ Goto(p, "proc_shadow_rec")
                 /\ UNCHANGED ret
    /\ UNCHANGED <<shared, history>>

(* a recorder that counts a shadow failure as a migration failure *)
record_shadow_mode_resultMut(m, result) ==
    IF result.ok
      THEN [m EXCEPT !.shadow_mode_successes = @ + 1]
      ELSE [m EXCEPT !.migration_errors = @ + 1]

record_shadow_mode_result(m, result) ==
    IF result.ok
      THEN [m EXCEPT !.shadow_mode_successes = @ + 1]
      ELSE [m EXCEPT !.shadow_mode_errors = @ + 1]

(* a recorder that works the rate out again only after a failure *)
record_migration_resultMut(m, result) ==
    IF result.ok
      THEN [m EXCEPT !.migration_successes = @ + 1]
      ELSE [m EXCEPT !.migration_errors = @ + 1,
                     !.rate_num = m.migration_errors + 1,
                     !.rate_den = m.migration_successes + m.migration_errors + 1]

record_migration_result(m, result) ==
    LET counted == IF result.ok
                     THEN [m EXCEPT !.migration_successes = @ + 1]
                     ELSE [m EXCEPT !.migration_errors = @ + 1]
        total == counted.migration_successes + counted.migration_errors
    IN  IF total > 0
          THEN [counted EXCEPT !.rate_num = counted.migration_errors, !.rate_den = total]
          ELSE counted

ProcessShadowRecord(p) ==
    /\ pc[p] = "proc_shadow_rec"
    /\ metrics' = record_shadow_mode_result(metrics, loc[p].sres)
    /\ Return(p, HashReturn(loc[p].res))
    /\ UNCHANGED <<active, staged, status, mstate, report, history>>

(* a router that answers with an error when the candidate slot is empty *)
ProcessGradualRouteMut(p) ==
    /\ pc[p] = "proc"
    /\ loc[p].st.tag = "GradualMigration"
    /\ \E h \in ThreadHashes :
          IF should_use_staged_algorithm(h, loc[p].st.pct)
            THEN /\ ~StagedWriteHeld
                 /\ IF staged = None
                       THEN Return(p, Error("process", "NO_STAGED_ALGORITHM"))
                       ELSE \E ok \in HashOutcomes(staged) :
                              /\ SetLoc(p, [loc[p] EXCEPT !.sres = HashResult(staged, ok)])
                              /\ Goto(p, "proc_mig_rec")
                              /\ UNCHANGED ret
            ELSE \E ok \in HashOutcomes(active) :
                    Return(p, HashReturn(HashResult(active, ok)))
    /\ UNCHANGED <<shared, history>>

ProcessGradualRoute(p) ==
    /\ pc[p] = "proc"
    /\ loc[p].st.tag = "GradualMigration"
    /\ \E h \in ThreadHashes :
          IF should_use_staged_algorithm(h, loc[p].st.pct)
            THEN /\ ~StagedWriteHeld
                 /\ IF staged = None
                       THEN /\ Goto(p, "proc_fallback")
                            /\ UNCHANGED <<loc, ret>>
                       ELSE \E ok \in HashOutcomes(staged) :
                              /\ SetLoc(p, [loc[p] EXCEPT !.sres = HashResult(staged, ok)])
                              /\ Goto(p, "proc_mig_rec")
                              /\ UNCHANGED ret
            ELSE \E ok \in HashOutcomes(active) :
                    Return(p, HashReturn(HashResult(active, ok)))
    /\ UNCHANGED <<shared, history>>

(* the result of the staged engine is recorded and returned as it is *)
ProcessMigrationRecord(p) ==
    /\ pc[p] = "proc_mig_rec"
    /\ metrics' = record_migration_result(metrics, loc[p].sres)
    /\ Return(p, HashReturn(loc[p].sres))
    /\ UNCHANGED <<active, staged, status, mstate, report, history>>

(* The same request with the time the hash takes made visible: the hash
   begins when the read guard of the slot is taken and ends when it is
   dropped.  Outside ShadowMode *)
HashActiveBegin(p) ==
    /\ \/ pc[p] = "proc" /\ loc[p].st.tag \notin {"ShadowMode", "GradualMigration"}
       \/ /\ pc[p] = "proc" /\ loc[p].st.tag = "GradualMigration"
          /\ \E h \in ThreadHashes : ~should_use_staged_algorithm(h, loc[p].st.pct)
       \/ pc[p] = "proc_fallback"
    /\ SetLoc(p, [loc[p] EXCEPT !.alg = active])
    /\ Goto(p, "hash_active")
    /\ UNCHANGED <<shared, history, ret>>

HashActiveEnd(p) ==
    /\ pc[p] = "hash_active"
    /\ \E ok \in HashOutcomes(loc[p].alg) :
          Return(p, HashReturn(HashResult(loc[p].alg, ok)))
    /\ UNCHANGED <<shared, history>>

HashStagedBegin(p) ==
    /\ pc[p] = "proc"
    /\ loc[p].st.tag = "GradualMigration"
    /\ \E h \in ThreadHashes : should_use_staged_algorithm(h, loc[p].st.pct)
    /\ ~StagedWriteHeld
    /\ IF staged = None
          THEN /\ Goto(p, "proc_fallback")
               /\ UNCHANGED loc
          ELSE /\ Goto(p, "hash_staged")
               /\ SetLoc(p, [loc[p] EXCEPT !.alg = staged])
    /\ UNCHANGED <<shared, history, ret>>

HashStagedEnd(p) ==
    /\ pc[p] = "hash_staged"
    /\ \E ok \in HashOutcomes(loc[p].alg) :
          SetLoc(p, [loc[p] EXCEPT !.sres = HashResult(loc[p].alg, ok)])
    /\ Goto(p, "proc_mig_rec")
    /\ UNCHANGED <<shared, history, ret>>

ProcessTimed(p) ==
    \/ ProcessRead(p)
    \/ HashActiveBegin(p)
    \/ HashActiveEnd(p)
    \/ HashStagedBegin(p)
    \/ HashStagedEnd(p)
    \/ ProcessMigrationRecord(p)

ProcessHashRequest(p) ==
    \/ ProcessRead(p)
    \/ ProcessActiveOnly(p)
    \/ ProcessShadowActive(p)
    \/ ProcessShadowStaged(p)
    \/ ProcessShadowRecord(p)
    \/ ProcessGradualRoute(p)
    \/ ProcessMigrationRecord(p)

-----------------------------------------------------------------------------
(* advance_migration *)

NoPercentage == 0

(* a search that accepts the current percentage again *)
get_next_migration_percentageMut(current, percentages) ==
    LET later == {i \in DOMAIN percentages : percentages[i] >= current}
    IN  IF later = {} THEN NoPercentage
        ELSE percentages[CHOOSE i \in later : \A j \in later : i <= j]

(* percentages.iter().find(|p| p > current) *)
get_next_migration_percentage(current, percentages) ==
    LET later == {i \in DOMAIN percentages : percentages[i] > current}
    IN  IF later = {} THEN NoPercentage
        ELSE percentages[CHOOSE i \in later : \A j \in later : i <= j]

(* a comparison of the error count, not of the rate, with the budget *)
WithinBudgetMut(num, den) == num <= max_error_rate * den

(* error_rate <= max_error_rate for error_rate = num / den *)
WithinBudget(num, den) == num * Scale <= max_error_rate * den

should_proceed_from_shadow_mode(m) ==
    LET total == m.shadow_mode_successes + m.shadow_mode_errors
    IN  IF total < ShadowSampleThreshold THEN FALSE
        ELSE WithinBudget(m.shadow_mode_errors, total)

(* a guard that wants a served request *)
should_advance_migration_phaseMut(m) ==
    /\ m.migration_successes + m.migration_errors > 0
    /\ WithinBudget(m.rate_num, m.rate_den)

should_advance_migration_phase(m) == WithinBudget(m.rate_num, m.rate_den)

(* an advance that rolls a finished migration back *)
AdvanceReadMut(p) ==
    /\ pc[p] = "idle"
    /\ IF mstate.tag \in {"ShadowMode", "Complete"}
          THEN /\ Goto(p, "adv_shadow")
               /\ SetLoc(p, [NoLoc EXCEPT !.op = "advance", !.st = mstate])
               /\ ret' = [ret EXCEPT ![p] = NoRet]
          ELSE IF mstate.tag = "GradualMigration"
          THEN /\ Goto(p, "adv_gradual")
               /\ SetLoc(p, [NoLoc EXCEPT !.op = "advance", !.st = mstate])
               /\ ret' = [ret EXCEPT ![p] = NoRet]
          ELSE Return(p, Error("advance", "INVALID_MIGRATION_STATE"))
    /\ UNCHANGED <<shared, history>>

AdvanceRead(p) ==
    /\ pc[p] = "idle"
    /\ IF mstate.tag = "ShadowMode"
          THEN /\ Goto(p, "adv_shadow")
               /\ SetLoc(p, [NoLoc EXCEPT !.op = "advance", !.st = mstate])
               /\ ret' = [ret EXCEPT ![p] = NoRet]
          ELSE IF mstate.tag = "GradualMigration"
          THEN /\ Goto(p, "adv_gradual")
               /\ SetLoc(p, [NoLoc EXCEPT !.op = "advance", !.st = mstate])
               /\ ret' = [ret EXCEPT ![p] = NoRet]
          ELSE Return(p, Error("advance", "INVALID_MIGRATION_STATE"))
    /\ UNCHANGED <<shared, history>>

AdvanceShadowCheck(p) ==
    /\ pc[p] = "adv_shadow"
    /\ IF should_proceed_from_shadow_mode(metrics)
          THEN Goto(p, "adv_shadow_write")
          ELSE Goto(p, "rb_begin")
    /\ UNCHANGED <<shared, history, loc, ret>>

(* a first step that ignores the ramp list *)
FirstPercentageMut == DefaultFirstPercentage

(* gradual_percentages.first().copied().unwrap_or(0.05) *)
FirstPercentage ==
    IF Len(gradual_percentages) > 0 THEN gradual_percentages[1] ELSE DefaultFirstPercentage

AdvanceShadowWrite(p) ==
    /\ pc[p] = "adv_shadow_write"
    /\ ~StateReadHeld
    /\ mstate' = GradualMigration(FirstPercentage)
    /\ Return(p, [Success("advance") EXCEPT !.st = GradualMigration(FirstPercentage)])
    /\ UNCHANGED <<active, staged, status, report, metrics, history>>

(* an advance that enters the last step of the ramp instead of finalizing *)
AdvanceGradualCheckMut(p) ==
    /\ pc[p] = "adv_gradual"
    /\ IF should_advance_migration_phase(metrics)
          THEN LET next == get_next_migration_percentage(loc[p].st.pct, gradual_percentages)
               IN  IF next # NoPercentage
                     THEN /\ Goto(p, "adv_gradual_write")
                          /\ SetLoc(p, [loc[p] EXCEPT !.new_state = GradualMigration(next)])
                     ELSE /\ Goto(p, "fin_begin")
                          /\ UNCHANGED loc
          ELSE /\ Goto(p, "rb_begin")
               /\ UNCHANGED loc
    /\ UNCHANGED <<shared, history, ret>>

AdvanceGradualCheck(p) ==
    /\ pc[p] = "adv_gradual"
    /\ IF should_advance_migration_phase(metrics)
          THEN LET next == get_next_migration_percentage(loc[p].st.pct, gradual_percentages)
               IN  IF next # NoPercentage /\ next < FullPercentage
                     THEN /\ Goto(p, "adv_gradual_write")
                          /\ SetLoc(p, [loc[p] EXCEPT !.new_state = GradualMigration(next)])
                     ELSE /\ Goto(p, "fin_begin")
                          /\ UNCHANGED loc
          ELSE /\ Goto(p, "rb_begin")
               /\ UNCHANGED loc
    /\ UNCHANGED <<shared, history, ret>>

AdvanceGradualWrite(p) ==
    /\ pc[p] = "adv_gradual_write"
    /\ ~StateReadHeld
    /\ mstate' = loc[p].new_state
    /\ Return(p, [Success("advance") EXCEPT !.st = loc[p].new_state])
    /\ UNCHANGED <<active, staged, status, report, metrics, history>>

AdvanceMigration(p) ==
    \/ AdvanceRead(p)
    \/ AdvanceShadowCheck(p)
    \/ AdvanceShadowWrite(p)
    \/ AdvanceGradualCheck(p)
    \/ AdvanceGradualWrite(p)
    \/ RollbackBegin(p) /\ pc[p] = "rb_begin"
    \/ RollbackSteps(p) /\ loc[p].op = "advance"
    \/ FinalizeSteps(p)

RollbackMigration(p) ==
    \/ RollbackBegin(p) /\ pc[p] = "idle"
    \/ RollbackSteps(p) /\ loc[p].op = "rollback"

-----------------------------------------------------------------------------
(* get_status: the names of the two engines are read one after the other,
   then status, state and report are read with the earlier guards held *)

GetStatusActive(p) ==
    /\ pc[p] = "idle"
    /\ Goto(p, "gs_staged")
    /\ SetLoc(p, [NoLoc EXCEPT !.op = "status", !.snap.active_algorithm = active])
    /\ ret' = [ret EXCEPT ![p] = NoRet]
    /\ UNCHANGED <<shared, history>>

GetStatusStaged(p) ==
    /\ pc[p] = "gs_staged"
    /\ ~StagedWriteHeld
    /\ Goto(p, "gs_status")
    /\ SetLoc(p, [loc[p] EXCEPT !.snap.staged_algorithm = staged])
    /\ UNCHANGED <<shared, history, ret>>

GetStatusStatus(p) ==
    /\ pc[p] = "gs_status"
    /\ Goto(p, "gs_state")
    /\ SetLoc(p, [loc[p] EXCEPT !.snap.staging_status = status])
    /\ UNCHANGED <<shared, history, ret>>

GetStatusStateMut(p) ==
    /\ pc[p] = "gs_state"
    /\ ~StagedWriteHeld
    /\ Goto(p, "gs_report")
    /\ SetLoc(p, [loc[p] EXCEPT !.snap.migration_state = mstate])
    /\ UNCHANGED <<shared, history, ret>>

GetStatusState(p) ==
    /\ pc[p] = "gs_state"
    /\ Goto(p, "gs_report")
    /\ SetLoc(p, [loc[p] EXCEPT !.snap.migration_state = mstate])
    /\ UNCHANGED <<shared, history, ret>>

GetStatusReport(p) ==
    /\ pc[p] = "gs_report"
    /\ Return(p, [Success("status") EXCEPT
                     !.snap = [loc[p].snap EXCEPT !.validation_results = report]])
    /\ UNCHANGED <<shared, history>>

GetStatus(p) ==
    \/ GetStatusActive(p)
    \/ GetStatusStaged(p)
    \/ GetStatusStatus(p)
    \/ GetStatusState(p)
    \/ GetStatusReport(p)

-----------------------------------------------------------------------------
(* The callers *)

Step(p) ==
    \/ StageUncontended(p)
    \/ StartMigration(p)
    \/ ProcessHashRequest(p)
    \/ AdvanceMigration(p)
    \/ RollbackMigration(p)

(* One driver makes the control-plane calls one after the other while one
   other task serves requests without a pause *)
Worker == CHOOSE p \in Callers : p # Driver

Next ==
    \/ Step(Driver)
    \/ ProcessHashRequest(Worker)

Spec == Init /\ [][Next]_vars

(* The driver makes every call, the requests included, one after the other
   while the other task polls get_status *)
NextObserved ==
    \/ Step(Driver)
    \/ GetStatus(Worker)

SpecObserved == Init /\ [][NextObserved]_vars

(* Every caller stages and starts migrations, nobody rolls back *)
NextStaging == \E p \in Callers : StageUncontended(p) \/ StartMigration(p)

SpecStaging == Init /\ [][NextStaging]_vars

(* Every caller stages, starts migrations and rolls back, and no request
   is served *)
NextControl ==
    \E p \in Callers :
        Stage(p) \/ StartMigration(p) \/ RollbackMigration(p)

SpecControl == Init /\ [][NextControl]_vars

(* The validation pipeline as a function of what the probes answer.  The
   probes of this code answer constants; here their answers are inputs, and
   the rest of validate_staged_algorithm and of stage_algorithm runs on
   them *)
Scores == {0, PerformanceThreshold - 1, PerformanceThreshold, Scale}

ProbesReturn(p) ==
    /\ pc[p] = "val_wait"
    /\ \E compat \in BOOLEAN, perf \in Scores, sec \in BOOLEAN,
          vectors \in BOOLEAN, mem \in BOOLEAN :
          SetLoc(p, [loc[p] EXCEPT
                       !.results = BuildResults(compat, perf, sec, vectors, mem)])
    /\ Goto(p, "val_built")
    /\ UNCHANGED <<shared, history, ret>>

StoreResults(p) ==
    /\ pc[p] = "val_built"
    /\ report' = loc[p].results
    /\ Goto(p, "val_verdict")
    /\ UNCHANGED <<active, staged, status, mstate, metrics, history, loc, ret>>

VerdictOnResults(p) ==
    /\ pc[p] = "val_verdict"
    /\ ~StatusReadHeld
    /\ IF is_validation_successful(loc[p].results)
          THEN /\ status' = "ValidationPassed"
               /\ Return(p, [Success("stage") EXCEPT !.code = AlgorithmId(loc[p].alg)])
          ELSE /\ status' = "ValidationFailed"
               /\ Return(p, Error("stage", "VALIDATION_FAILED"))
    /\ UNCHANGED <<active, staged, mstate, report, metrics, history>>

NextValidation ==
    \/ \E alg \in Candidates : StageCheck(Driver, alg)
    \/ StageSetStaging(Driver)
    \/ StageStore(Driver)
    \/ StageSetValidating(Driver)
    \/ ValidateRead(Driver)
    \/ ProbesReturn(Driver)
    \/ StoreResults(Driver)
    \/ VerdictOnResults(Driver)

SpecValidation == Init /\ [][NextValidation]_vars

(* A caller wraps its call in tokio::time::timeout: when the time is up the
   call is dropped at the await it is suspended at, the sleeping probes of
   validate_staged_algorithm or the wait for the metrics mutex, and the
   caller gets Elapsed *)
SuspensionPoints == {"val_wait", "start_metrics"}

Timeout(p) ==
    /\ pc[p] \in SuspensionPoints
    /\ Return(p, Error(loc[p].op, "Elapsed"))
    /\ UNCHANGED <<shared, history>>

NextTimeout ==
    \E p \in Callers : StageUncontended(p) \/ StartMigration(p) \/ Timeout(p)

SpecTimeout == Init /\ [][NextTimeout]_vars

(* The end of the ramp.  The manager is taken where Spec leaves it when the
   driver has staged a candidate, started the migration, served the shadow
   requests itself and advanced up to the last step below 1.0; from there
   every caller advances, rolls back and serves requests *)
LastRampStep == gradual_percentages[Len(gradual_percentages) - 1]

RampState(cand) ==
    /\ active = InitialEngine
    /\ staged = cand
    /\ status = "ValidationPassed"
    /\ mstate = GradualMigration(LastRampStep)
    /\ report = RunValidation(cand)
    /\ metrics = [DefaultMetrics EXCEPT !.started = TRUE,
                                        !.shadow_mode_successes = ShadowSampleThreshold]
    /\ resets = 1
    /\ activeAtStart = InitialEngine
    /\ promoted = None
    /\ pc = [p \in Callers |-> "idle"]
    /\ loc = [p \in Callers |-> NoLoc]
    /\ ret = [p \in Callers |->
                IF p = Driver
                  THEN [Success("advance") EXCEPT !.st = GradualMigration(LastRampStep)]
                  ELSE NoRet]

InitRamp == \E cand \in Candidates : RampState(cand)

AdvanceRamp(p) ==
    \/ AdvanceRead(p)
    \/ AdvanceGradualCheck(p)
    \/ RollbackBegin(p) /\ pc[p] = "rb_begin"
    \/ RollbackSteps(p) /\ loc[p].op = "advance"
    \/ FinalizeSteps(p)

ProcessRamp(p) ==
    \/ ProcessRead(p)
    \/ ProcessActiveOnly(p)
    \/ ProcessGradualRoute(p)
    \/ ProcessMigrationRecord(p)

NextRamp ==
    \E p \in Callers :
        AdvanceRamp(p) \/ RollbackMigration(p) \/ ProcessRamp(p)

SpecRamp == InitRamp /\ [][NextRamp]_vars

(* The locks.  From the same state the driver advances and rolls back while
   the other task serves requests whose hashes take time *)
NextHashing ==
    \/ AdvanceRamp(Driver)
    \/ RollbackMigration(Driver)
    \/ ProcessTimed(Worker)

SpecHashing == InitRamp /\ [][NextHashing]_vars

(* A new candidate during the end of the ramp.  From the same state, with
   no request served and so the error rate within budget, the driver
   advances while the other task rolls back and stages *)
NextRestage ==
    \/ AdvanceRead(Driver)
    \/ AdvanceGradualCheck(Driver)
    \/ FinalizeSteps(Driver)
    \/ RollbackMigration(Worker)
    \/ Stage(Worker)

SpecRestage == InitRamp /\ [][NextRestage]_vars

(* Every lock.  From the same state one caller makes every call of the
   manager while a second one serves requests, advances, rolls back and
   reads the status, with the hashes taking time; the state is past Idle
   for good, so start_migration ends at one of its two checks *)
LockStep(p) ==
    \/ Stage(p)
    \/ StartCheckStatus(p)
    \/ StartCheckState(p)
    \/ ProcessTimed(p)
    \/ AdvanceRamp(p)
    \/ RollbackMigration(p)
    \/ GetStatus(p)

SecondStep(p) ==
    \/ ProcessTimed(p)
    \/ AdvanceRamp(p)
    \/ RollbackMigration(p)
    \/ GetStatus(p)

NextLocks == LockStep(Driver) \/ SecondStep(Worker)

SpecLocks == InitRamp /\ [][NextLocks]_vars

(* The metrics.  Two callers have called start_migration with a validated
   candidate whose hash can fail, and both have read Idle; the driver has
   gone on, reset the metrics, written ShadowMode, served the shadow requests
   and advanced up to the last step below 1.0, the other caller is still
   waiting for the metrics mutex.  From there both serve requests and the
   driver advances *)
RacingStartState(cand) ==
    /\ active = InitialEngine /\ staged = cand /\ status = "ValidationPassed"
    /\ mstate = GradualMigration(LastRampStep) /\ report = RunValidation(cand)
    /\ metrics = [DefaultMetrics EXCEPT !.started = TRUE,
                                        !.shadow_mode_successes = ShadowSampleThreshold]
    /\ resets = 1 /\ activeAtStart = InitialEngine /\ promoted = None
    /\ pc = [p \in Callers |-> IF p = Worker THEN "start_metrics" ELSE "idle"]
    /\ loc = [p \in Callers |->
                IF p = Worker THEN [NoLoc EXCEPT !.op = "start"] ELSE NoLoc]
    /\ ret = [p \in Callers |->
                IF p = Driver
                  THEN [Success("advance") EXCEPT !.st = GradualMigration(LastRampStep)]
                  ELSE NoRet]

InitMetrics == \E cand \in Flaky : RacingStartState(cand)

NextMetrics ==
    \/ AdvanceMigration(Driver)
    \/ \E p \in {Driver, Worker} : StartMigration(p) \/ ProcessHashRequest(p)

SpecMetrics == InitMetrics /\ [][NextMetrics]_vars

-----------------------------------------------------------------------------
(* Properties *)

BusyStatuses == {"Staging", "ValidationInProgress", "ValidationPassed", "Ready"}

ReadyStatuses == {"ValidationPassed", "Ready"}

(* C1: of the stage calls that run concurrently on a manager that is
   NotStaged, exactly one succeeds and every other one returns
   STAGING_IN_PROGRESS.  Nobody rolls back under SpecStaging, so a call that
   starts after a successful one is refused: two calls that have both
   succeeded with different candidates have run concurrently. *)
C1_OneStageSucceeds ==
    \A p, q \in Callers :
        (/\ p # q
         /\ ret[p].op = "stage" /\ ret[p].ok
         /\ ret[q].op = "stage")
        => /\ ~ret[q].ok
           /\ ret[q].code = "STAGING_IN_PROGRESS"

StageRefused(p) ==
    /\ pc[p] = "idle"
    /\ ret'[p] # ret[p]
    /\ ret'[p] = Error("stage", "STAGING_IN_PROGRESS")

(* C2 as stated: a stage call made while the status is anything but
   NotStaged is refused with STAGING_IN_PROGRESS and changes neither the
   candidate nor the status nor the report *)
C2_StageRefusedUnlessNotStaged ==
    [][\A p \in Callers :
          (pc[p] = "idle" /\ status # "NotStaged")
          => /\ pc'[p] # "stage_set"
             /\ StageRefused(p) => UNCHANGED <<staged, status, report>>]_vars

(* C2 amended: a stage call made while the status is Staging,
   ValidationInProgress, ValidationPassed or Ready is refused with
   STAGING_IN_PROGRESS and changes neither the candidate nor the status nor
   the report; a call made at ValidationFailed is accepted *)
C2_StageRefusedWhileBusy ==
    [][\A p \in Callers :
          (pc[p] = "idle" /\ status \in BusyStatuses)
          => /\ pc'[p] # "stage_set"
             /\ StageRefused(p) => UNCHANGED <<staged, status, report>>]_vars

C2_Witness ==
    \E p \in Callers :
        /\ ret[p] = Error("stage", "STAGING_IN_PROGRESS")
        /\ status = "ValidationPassed"
        /\ staged \in Candidates
        /\ report.some

(* C9: of the start_migration calls that run concurrently against one
   validated candidate at most one succeeds, the others return
   MIGRATION_IN_PROGRESS, and the metrics are reset once *)
C9_OneMigrationStarts ==
    /\ resets <= 1
    /\ \A p, q \in Callers :
          (/\ p # q
           /\ ret[p].op = "start" /\ ret[p].ok
           /\ ret[q].op = "start" /\ ret[q].code # "NOT_READY_FOR_MIGRATION")
          => /\ ~ret[q].ok
             /\ ret[q].code = "MIGRATION_IN_PROGRESS"

RollbackPcs == {"rb_staged", "rb_status", "rb_report", "rb_done"}

InRamp(pct) == \E i \in DOMAIN gradual_percentages : gradual_percentages[i] = pct

ExceedsBudget(num, den) == num * Scale > max_error_rate * den

(* a step in which caller p reads the active engine, and the engine it gets *)
ReadsActive(p) ==
    /\ pc[p] \in {"proc", "proc_fallback"}
    /\ pc'[p] \in {"idle", "proc_shadow"}

EngineRead(p) == IF pc'[p] = "idle" THEN ret'[p].res.by ELSE loc'[p].res.by

(* C3: the swap of finalize is atomic for the readers of the active engine:
   the active engine is never absent, a reader gets the old engine until
   the swap and the former candidate from the swap on, in particular after
   finalize has returned *)
C3_AtomicSwap ==
    /\ [](/\ active \in Engines
          /\ promoted # None => active = promoted
          /\ \A q \in Callers :
                /\ pc[q] = "fin_active" => active # loc[q].alg /\ promoted = None
                /\ pc[q] \in {"fin_state", "fin_status"} => active = loc[q].alg)
    /\ [][\A p \in Callers :
            ReadsActive(p)
            => /\ EngineRead(p) \in Engines
               /\ EngineRead(p) = active
               /\ promoted # None => EngineRead(p) = promoted]_vars

C3_Witness ==
    /\ pc[Driver] = "fin_status"
    /\ ret[Worker].op = "process"
    /\ ret[Worker].res.by = promoted
    /\ mstate = Complete
    /\ pc[Worker] = "idle"

RollbackReturned(p) ==
    /\ pc[p] = "idle"
    /\ ret[p].op \in {"rollback", "advance"}
    /\ ret[p].ok
    /\ ret[p].st = RollbackComplete

RolledBackState ==
    /\ staged = None
    /\ status = "NotStaged"
    /\ mstate = RollbackComplete
    /\ report = NoReport

(* C4 as stated: when rollback_migration has returned for a migration that
   was started, nothing is staged, the status is NotStaged, the state is
   RollbackComplete, the report is cleared and the active engine is the one
   that was active before start_migration *)
C4_RollbackRestores ==
    \A p \in Callers :
        (RollbackReturned(p) /\ resets > 0)
        => RolledBackState /\ active = activeAtStart

(* C4 amended: the same for a migration that was started and has not been
   finalized; after a finalized migration the promoted engine stays active *)
C4_RollbackRestoresUnfinalized ==
    \A p \in Callers :
        (RollbackReturned(p) /\ resets > 0)
        => /\ RolledBackState
           /\ promoted = None => active = activeAtStart
           /\ promoted # None => active = promoted

C4_Witness ==
    /\ RollbackReturned(Driver)
    /\ ret[Driver].op = "rollback"
    /\ resets > 0
    /\ promoted = None
    /\ ShadowTotal > 0

(* C5: in GradualMigration the percentage only moves to a strictly larger
   member of the ramp list, until the migration finalizes or rolls back;
   an advance_migration made within the error budget moves to the next
   larger step or, when no step below 1.0 is left, finalizes and ends in
   Complete: the ramp is left after at most as many calls as it has steps *)
C5_RampMonotonic ==
    [][/\ (mstate.tag = "GradualMigration" /\ mstate' # mstate)
          => \/ /\ mstate'.tag = "GradualMigration"
                /\ mstate'.pct > mstate.pct
                /\ InRamp(mstate'.pct)
             \/ mstate' \in {Finalizing, RollingBack}
       /\ \A p \in Callers :
            /\ (/\ pc[p] = "adv_gradual" /\ pc'[p] # "adv_gradual"
                /\ ~ExceedsBudget(metrics.rate_num, metrics.rate_den))
               => \/ /\ pc'[p] = "adv_gradual_write"
                     /\ loc'[p].new_state.tag = "GradualMigration"
                     /\ loc'[p].new_state.pct > loc[p].st.pct
                     /\ InRamp(loc'[p].new_state.pct)
                  \/ /\ pc'[p] = "fin_begin"
                     /\ \A i \in DOMAIN gradual_percentages :
                           gradual_percentages[i] > loc[p].st.pct
                           => gradual_percentages[i] >= FullPercentage
            /\ (pc[p] = "adv_gradual_write" /\ pc'[p] = "idle")
               => mstate' = loc[p].new_state /\ ret'[p].ok /\ ret'[p].st = mstate'
            /\ (pc[p] \in {"fin_begin", "fin_take", "fin_active", "fin_state", "fin_status"}
                /\ pc'[p] = "idle")
               => mstate' = Complete /\ ret'[p].ok /\ ret'[p].st = Complete]_vars

C5_Witness ==
    /\ mstate = Complete
    /\ pc[Driver] = "idle"
    /\ ret[Driver] = [Success("advance") EXCEPT !.st = Complete]
    /\ metrics.migration_successes > 0

(* C6: an advance_migration that finds the error rate above max_error_rate
   (the migration error rate in GradualMigration, the shadow error rate in
   ShadowMode once the sample threshold is reached) rolls back: it ends in
   RollbackComplete with the candidate discarded and moves neither to
   GradualMigration nor to Complete *)
C6_ErrorBudgetEnforced ==
    [][\A p \in Callers :
          /\ (/\ pc[p] = "adv_gradual" /\ pc'[p] # "adv_gradual"
              /\ ExceedsBudget(metrics.rate_num, metrics.rate_den))
             => pc'[p] = "rb_begin"
          /\ (/\ pc[p] = "adv_shadow" /\ pc'[p] # "adv_shadow"
              /\ ShadowTotal >= ShadowSampleThreshold
              /\ ExceedsBudget(metrics.shadow_mode_errors, ShadowTotal))
             => pc'[p] = "rb_begin"
          /\ (pc[p] = "rb_begin" /\ mstate' # mstate) => mstate' = RollingBack
          /\ (pc[p] \in RollbackPcs /\ loc[p].op = "advance")
             => mstate'.tag \in {"RollingBack", "RollbackComplete"}
          /\ (pc[p] = "rb_done" /\ loc[p].op = "advance" /\ pc'[p] = "idle")
             => /\ mstate' = RollbackComplete
                /\ staged' = None
                /\ status' = "NotStaged"
                /\ ret'[p] = [Success("advance") EXCEPT !.st = RollbackComplete]]_vars

C6_Witness ==
    /\ pc[Driver] = "idle"
    /\ ret[Driver] = [Success("advance") EXCEPT !.st = RollbackComplete]
    /\ metrics.migration_errors > 0
    /\ mstate = RollbackComplete
    /\ staged = None

(* C7: rollback_migration can be called in every state, always returns
   success carrying RollbackComplete and leaves the same state whatever the
   state it was called in: nothing staged, NotStaged, no report,
   RollbackComplete, the active engine and the metrics untouched; a second
   call right after the first one therefore returns the same result and
   leaves the same state *)
C7_RollbackIdempotent ==
    /\ [](\A p \in Callers :
            /\ pc[p] = "idle" => ENABLED RollbackBegin(p)
            /\ ret[p].op = "rollback"
               => ret[p] = [Success("rollback") EXCEPT !.st = RollbackComplete])
    /\ [][\A p \in Callers :
            /\ (loc[p].op = "rollback" /\ pc[p] = "rb_done" /\ pc'[p] = "idle")
               => RolledBackState'
            /\ (loc[p].op = "rollback" /\ pc'[p] # pc[p])
               => active' = active /\ metrics' = metrics]_vars

C7_Witness ==
    /\ pc[Driver] = "rb_done"
    /\ loc[Driver].op = "rollback"
    /\ ret[Driver] = NoRet
    /\ staged = None /\ status = "NotStaged" /\ report = NoReport
    /\ active # InitialEngine

(* C8: start_migration succeeds exactly when the status is ValidationPassed
   or Ready and the state is Idle, and then the state becomes ShadowMode
   with percentage 1.0; otherwise it returns NOT_READY_FOR_MIGRATION (the
   status is tested first) or MIGRATION_IN_PROGRESS and changes neither the
   state nor the status, the candidate or the metrics *)
C8_StartMigrationContract ==
    [][\A p \in Callers :
          /\ (pc[p] = "idle" /\ pc'[p] = "start_state")
             => status \in ReadyStatuses /\ UNCHANGED shared
          /\ (pc[p] = "idle" /\ pc'[p] = "idle" /\ ret'[p].op = "start" /\ ret'[p] # ret[p])
             => /\ status \notin ReadyStatuses
                /\ ret'[p] = Error("start", "NOT_READY_FOR_MIGRATION")
                /\ UNCHANGED shared
          /\ (pc[p] = "start_state" /\ pc'[p] = "idle")
             => /\ mstate # Idle
                /\ ret'[p] = Error("start", "MIGRATION_IN_PROGRESS")
                /\ UNCHANGED shared
          /\ (pc[p] = "start_state" /\ pc'[p] = "start_metrics")
             => mstate = Idle /\ status \in ReadyStatuses /\ UNCHANGED shared
          /\ (pc[p] = "start_metrics" /\ pc'[p] = "start_write")
             => mstate = Idle /\ UNCHANGED <<active, staged, status, mstate, report>>
          /\ (pc[p] = "start_write" /\ pc'[p] = "idle")
             => /\ mstate = Idle /\ status \in ReadyStatuses /\ staged # None
                /\ mstate' = ShadowMode(FullPercentage)
                /\ ret'[p].op = "start" /\ ret'[p].ok
                /\ UNCHANGED <<active, staged, status, report, metrics>>]_vars

C8_Witness ==
    /\ pc[Driver] = "idle"
    /\ ret[Driver].op = "start" /\ ret[Driver].ok
    /\ mstate = ShadowMode(FullPercentage)
    /\ status = "ValidationPassed"
    /\ metrics = [DefaultMetrics EXCEPT !.started = TRUE]

(* C10: after the migration state has reached Complete or RollbackComplete
   a new successful stage returns the manager to Idle, so that
   start_migration is not refused with MIGRATION_IN_PROGRESS in one of
   these two states *)
C10_StageReturnsToIdle ==
    [][\A p \in Callers :
          /\ (/\ pc[p] = "stage_verdict" /\ pc'[p] = "idle" /\ ret'[p].ok
              /\ mstate \in {Complete, RollbackComplete})
             => mstate' = Idle
          /\ (pc[p] = "start_state" /\ pc'[p] = "idle")
             => mstate \notin {Complete, RollbackComplete}]_vars

(* C11: in GradualMigration, when a request is routed to the candidate and
   the candidate's hash fails, the failure is counted in migration_errors
   and the caller receives the result of the active engine, not the
   candidate's error *)
C11_GradualFailureFallsBack ==
    [][\A p \in Callers :
          (pc[p] = "proc_mig_rec" /\ pc'[p] = "idle" /\ ~loc[p].sres.ok)
          => /\ metrics'.migration_errors = metrics.migration_errors + 1
             /\ ret'[p].res.by = active
             /\ ret'[p].res # loc[p].sres]_vars

(* C12: a request that has read ShadowMode returns the result of the active
   engine whether the candidate succeeds, fails or is absent; the
   candidate's outcome adds one to the shadow success or error counter and
   leaves the counters and the rate of the gradual migration alone *)
C12_ShadowServesActive ==
    [][\A p \in Callers :
          (loc[p].op = "process" /\ loc[p].st.tag = "ShadowMode" /\ pc'[p] # pc[p])
          => /\ pc[p] = "proc"
                => /\ pc'[p] \in {"idle", "proc_shadow"}
                   /\ EngineRead(p) = active
             /\ pc[p] = "proc_shadow"
                => IF staged = None
                     THEN pc'[p] = "idle" /\ ret'[p] = HashReturn(loc[p].res)
                     ELSE /\ pc'[p] = "proc_shadow_rec"
                          /\ loc'[p].res = loc[p].res
                          /\ loc'[p].sres.by = staged
             /\ pc[p] = "proc_shadow_rec"
                => /\ pc'[p] = "idle"
                   /\ ret'[p] = HashReturn(loc[p].res)
                   /\ metrics'.shadow_mode_successes =
                         metrics.shadow_mode_successes + (IF loc[p].sres.ok THEN 1 ELSE 0)
                   /\ metrics'.shadow_mode_errors =
                         metrics.shadow_mode_errors + (IF loc[p].sres.ok THEN 0 ELSE 1)
             /\ pc[p] # "proc_shadow_rec" => metrics' = metrics
             /\ metrics'.migration_successes = metrics.migration_successes
             /\ metrics'.migration_errors = metrics.migration_errors
             /\ metrics'.rate_num = metrics.rate_num
             /\ metrics'.rate_den = metrics.rate_den]_vars

C12_Witness ==
    /\ mstate.tag = "ShadowMode"
    /\ pc[Worker] = "idle"
    /\ ret[Worker] = HashReturn(HashResult(active, TRUE))
    /\ ret[Driver].op = "start"
    /\ pc[Driver] = "idle"
    /\ metrics.shadow_mode_errors = 1
    /\ metrics.shadow_mode_successes = 0
    /\ MigrationTotal = 0

(* C13: zero downtime.  process_hash_request always returns the result of
   an engine's hash, in every migration state and whatever the driver is
   doing: a request fails only when the engine that served it failed the
   hash, so that no request fails when no engine ever fails a hash *)
C13_ZeroDowntime ==
    /\ [](\A p \in Callers :
            ret[p].op = "process"
            => /\ ret[p].res.by \in Engines
               /\ ret[p].ok = ret[p].res.ok
               /\ ~ret[p].ok => ret[p].res.by \in Flaky)
    /\ [][\A p \in Callers :
            (loc[p].op = "process" /\ pc'[p] = "idle")
            => /\ ret'[p].op = "process"
               /\ ret'[p].res.by \in Engines
               /\ ret'[p].res.by \notin Flaky => ret'[p].ok]_vars

C13_Witness ==
    /\ pc[Worker] = "idle"
    /\ ret[Worker] = HashReturn(HashResult(InitialEngine, TRUE))
    /\ pc[Driver] = "rb_status"
    /\ mstate = RollingBack
    /\ staged = None
    /\ metrics.migration_successes > 0

(* C14: in ShadowMode, when at least 50 shadow samples are recorded and the
   shadow error rate is at most max_error_rate, advance_migration returns
   success and the state becomes GradualMigration at the first step of the
   ramp, which is 0.01, with the candidate still staged *)
C14_ShadowAdvances ==
    [][\A p \in Callers :
          /\ (/\ pc[p] = "adv_shadow" /\ pc'[p] # pc[p]
              /\ ShadowTotal >= ShadowSampleThreshold
              /\ ~ExceedsBudget(metrics.shadow_mode_errors, ShadowTotal))
             => pc'[p] = "adv_shadow_write"
          /\ (pc[p] = "adv_shadow_write" /\ pc'[p] # pc[p])
             => /\ pc'[p] = "idle"
                /\ mstate' = GradualMigration(gradual_percentages[1])
                /\ mstate'.pct * 100 = Scale
                /\ ret'[p] = [Success("advance") EXCEPT !.st = mstate']
                /\ staged' = staged /\ staged \in Candidates
                /\ UNCHANGED <<active, status, report, metrics>>]_vars

C14_Witness ==
    /\ pc[Driver] = "idle"
    /\ ret[Driver] = [Success("advance") EXCEPT !.st = GradualMigration(100)]
    /\ mstate = GradualMigration(100)
    /\ staged \in Flaky
    /\ status = "ValidationPassed"
    /\ ShadowTotal >= ShadowSampleThreshold
    /\ metrics.shadow_mode_errors = 2
    /\ MigrationTotal = 0

(* C15: in ShadowMode with fewer shadow samples than the threshold,
   advance_migration is a no-op: it returns without changing the migration
   state, the candidate, the staging status or the report *)
C15_EarlyAdvanceIsNoOp ==
    [][\A p \in Callers :
          (/\ pc[p] = "adv_shadow" /\ pc'[p] # pc[p]
           /\ ShadowTotal < ShadowSampleThreshold)
          => /\ pc'[p] = "idle"
             /\ UNCHANGED <<mstate, staged, status, report>>]_vars

Migrating == {"ShadowMode", "GradualMigration"}

(* C16: advance_migration called in a state other than ShadowMode and
   GradualMigration returns INVALID_MIGRATION_STATE and changes nothing:
   neither the migration state nor the staging status, the candidate, the
   active engine, the report or the metrics *)
C16_AdvanceInvalidState ==
    /\ [](\A p \in Callers :
            (pc[p] = "idle" /\ mstate.tag \notin Migrating)
            => ENABLED (AdvanceRead(p) /\ pc'[p] = "idle"))
    /\ [][\A p \in Callers :
            /\ (pc[p] = "idle" /\ loc'[p].op = "advance")
               => mstate.tag \in Migrating
            /\ (/\ pc[p] = "idle" /\ pc'[p] = "idle"
                /\ ret'[p].op = "advance" /\ ret'[p] # ret[p])
               => /\ mstate.tag \notin Migrating
                  /\ ret'[p] = Error("advance", "INVALID_MIGRATION_STATE")
                  /\ UNCHANGED <<shared, history>>]_vars

C16_Witness ==
    /\ pc[Driver] = "idle"
    /\ ret[Driver] = Error("advance", "INVALID_MIGRATION_STATE")
    /\ mstate = Complete
    /\ active = promoted
    /\ status = "NotStaged"
    /\ metrics.migration_successes > 0

(* C17: when a migration finalizes, the staged candidate becomes the active
   engine, the candidate slot becomes empty, the status becomes NotStaged
   and the state Complete; from then on every request that reads the state
   or the active engine is served by the new engine *)
C17_FinalizePromotes ==
    [][\A p \in Callers :
          /\ (pc[p] = "fin_take" /\ pc'[p] = "fin_active")
             => loc'[p].alg = staged /\ staged \in Candidates /\ staged' = None
          /\ (pc[p] = "fin_status" /\ pc'[p] # pc[p])
             => /\ pc'[p] = "idle"
                /\ ret'[p] = [Success("advance") EXCEPT !.st = Complete]
                /\ active' = loc[p].alg /\ promoted' = loc[p].alg
                /\ staged' = None
                /\ status' = "NotStaged"
                /\ mstate' = Complete
          /\ (/\ loc[p].op = "process" /\ pc'[p] = "idle"
              /\ loc[p].st = Complete)
             => ret'[p].res.by = promoted /\ promoted \in Candidates
          /\ (/\ loc[p].op = "process" /\ pc'[p] = "idle"
              /\ promoted # None /\ loc[p].st.tag \notin Migrating)
             => ret'[p].res.by = promoted
          /\ (promoted # None /\ pc[p] = "proc_fallback" /\ pc'[p] = "idle")
             => ret'[p].res.by = promoted]_vars

C17_Witness ==
    /\ pc[Driver] = "idle"
    /\ ret[Driver] = [Success("advance") EXCEPT !.st = Complete]
    /\ mstate = Complete
    /\ active = promoted /\ promoted \in Candidates
    /\ staged = None
    /\ status = "NotStaged"
    /\ pc[Worker] = "idle"
    /\ ret[Worker].op = "process"
    /\ ret[Worker].res.by = promoted

(* C18: when the validation of a staged candidate fails, stage_algorithm
   returns an error, the candidate stays in its slot with the status
   ValidationFailed and the report stored, and a start_migration made at
   ValidationFailed is refused with NOT_READY_FOR_MIGRATION and leaves the
   migration state Idle *)
C18_ValidationFailureKeepsCandidate ==
    [][\A p \in Callers :
          /\ (loc[p].op = "stage" /\ pc'[p] = "idle" /\ ~ret'[p].ok)
             => /\ status' = "ValidationFailed"
                /\ staged' = loc[p].alg
                /\ report'.some
          /\ (/\ pc[p] = "idle" /\ status = "ValidationFailed"
              /\ ret'[p].op = "start" /\ ret'[p] # ret[p])
             => /\ ret'[p] = Error("start", "NOT_READY_FOR_MIGRATION")
                /\ mstate' = Idle]_vars

(* C19: stage_algorithm is refused with STAGING_IN_PROGRESS exactly when
   the status is Staging, ValidationInProgress, ValidationPassed or Ready;
   at NotStaged and at ValidationFailed it proceeds: it writes Staging,
   stores the new candidate in place of the one in the slot, writes
   ValidationInProgress, validates, stores the report that validation
   produced and ends with the status ValidationPassed or ValidationFailed *)
C19_StageContract ==
    /\ [](\A p \in Callers : \A alg \in Candidates :
            (pc[p] = "idle" /\ status \notin BusyStatuses)
            => ENABLED (StageCheck(p, alg) /\ pc'[p] = "stage_set"))
    /\ [][\A p \in Callers :
            /\ (pc[p] = "idle" /\ pc'[p] = "stage_set")
               => /\ status \in {"NotStaged", "ValidationFailed"}
                  /\ loc'[p].alg \in Candidates
                  /\ UNCHANGED shared
            /\ (pc[p] = "idle" /\ ret'[p].op = "stage" /\ ret'[p] # ret[p])
               => /\ status \in BusyStatuses
                  /\ ret'[p] = Error("stage", "STAGING_IN_PROGRESS")
                  /\ UNCHANGED shared
            /\ (pc[p] = "stage_set" /\ pc'[p] # pc[p])
               => pc'[p] = "stage_store" /\ status' = "Staging"
            /\ (pc[p] = "stage_store" /\ pc'[p] # pc[p])
               => pc'[p] = "stage_vip" /\ staged' = loc[p].alg
            /\ (pc[p] = "stage_vip" /\ pc'[p] # pc[p])
               => pc'[p] = "val_read" /\ status' = "ValidationInProgress"
            /\ (pc[p] = "val_read" /\ pc'[p] # pc[p])
               => IF staged = None
                    THEN pc'[p] = "val_err"
                    ELSE pc'[p] = "val_wait" /\ loc'[p].name = staged
            /\ (pc[p] = "val_wait" /\ pc'[p] # pc[p])
               => /\ pc'[p] = "stage_verdict"
                  /\ report'.some
                  /\ report' = RunValidation(loc[p].name)
            /\ (pc[p] = "stage_verdict" /\ pc'[p] # pc[p])
               => /\ pc'[p] = "idle"
                  /\ status' \in {"ValidationPassed", "ValidationFailed"}
                  /\ ret'[p].op = "stage"
                  /\ ret'[p].ok <=> status' = "ValidationPassed"
                  /\ ret'[p].ok => ret'[p].code = AlgorithmId(loc[p].alg)
            /\ (pc[p] = "val_err" /\ pc'[p] # pc[p])
               => /\ pc'[p] = "idle"
                  /\ status' = "ValidationFailed"
                  /\ ret'[p] = Error("stage", "VALIDATION_ERROR")]_vars

(* a call accepted at ValidationFailed: the status was written by the
   caller's own previous call, and the other callers have only rolled back *)
C19_Witness ==
    \E p \in Callers :
        /\ pc[p] = "stage_set"
        /\ status = "ValidationFailed"
        /\ \A q \in Callers \ {p} :
              /\ pc[q] = "idle"
              /\ ret[q] = [Success("rollback") EXCEPT !.st = RollbackComplete]

Ended == {Complete, RollbackComplete}

MigrationEnded(p) ==
    /\ pc[p] = "idle"
    /\ ret[p].op \in {"advance", "rollback"}
    /\ ret[p].ok
    /\ ret[p].st \in Ended

(* C20: when a migration has ended by finalize or by rollback the status is
   NotStaged and nothing is staged; a stage call made then is accepted and
   not refused with STAGING_IN_PROGRESS, and when validation passes it ends
   with the new candidate staged and the status ValidationPassed *)
C20_StageAfterMigration ==
    /\ [](\A p \in Callers :
            MigrationEnded(p)
            => /\ status = "NotStaged" /\ staged = None
               /\ mstate = ret[p].st
               /\ \A alg \in Candidates :
                     ENABLED (StageCheck(p, alg) /\ pc'[p] = "stage_set"))
    /\ [][\A p \in Callers :
            /\ MigrationEnded(p) => ~StageRefused(p)
            /\ (/\ pc[p] = "stage_verdict" /\ pc'[p] = "idle"
                /\ mstate \in Ended /\ ret'[p].ok)
               => /\ staged' = loc[p].alg /\ staged' \in Candidates
                  /\ status' = "ValidationPassed"
                  /\ report'.some
                  /\ ret'[p] = [Success("stage") EXCEPT !.code = AlgorithmId(loc[p].alg)]]_vars

C20_Witness ==
    /\ pc[Driver] = "idle"
    /\ ret[Driver].op = "stage" /\ ret[Driver].ok
    /\ mstate = Complete
    /\ active = promoted
    /\ staged \in Candidates /\ staged # active
    /\ status = "ValidationPassed"

(* C21: when finalize_migration finds the candidate slot empty, the call
   returns an error and the migration state becomes Failed *)
C21_FinalizeWithoutCandidateFails ==
    [][\A p \in Callers :
          (pc[p] = "fin_take" /\ pc'[p] # pc[p] /\ staged = None)
             => /\ pc'[p] = "idle"
                /\ ~ret'[p].ok
                /\ mstate' = Failed]_vars

Transient == {"Staging", "ValidationInProgress"}

(* C22: once no call is in flight, also after a call was dropped at a
   suspension point, the staging status is not Staging or
   ValidationInProgress and the migration state is not Finalizing or
   RollingBack *)
C22_CancelLeavesDefinedState ==
    (\A p \in Callers : pc[p] = "idle")
        => /\ status \notin Transient
           /\ mstate \notin {Finalizing, RollingBack}

CandidateStatuses ==
    {"Staging", "ValidationInProgress", "ValidationPassed", "ValidationFailed", "Ready"}

(* C23: in every reachable state, the states inside stage, finalize and
   rollback included, a staging status other than NotStaged implies that the
   candidate slot holds an engine and NotStaged implies that it is empty *)
C23_StatusMatchesSlot ==
    /\ status \in CandidateStatuses => staged # None
    /\ status = "NotStaged" => staged = None

(* C24: in every reachable state a migration state other than Idle,
   RollingBack and RollbackComplete implies that the candidate slot holds an
   engine *)
C24_MigrationNeedsCandidate ==
    mstate \notin {Idle, RollingBack, RollbackComplete} => staged # None

(* C25: the active engine changes only in the swap step of
   finalize_migration, and the engine written there is the one that this
   finalize took out of the candidate slot; no step of stage, start_migration,
   process_request, rollback_migration, get_status or of an advance that does
   not finalize changes it *)
C25_ActiveChangesOnlyInFinalize ==
    [][/\ active' # active
           => \E p \in Callers :
                 /\ pc[p] = "fin_active" /\ pc'[p] = "fin_state"
                 /\ loc[p].op = "advance"
                 /\ active' = loc[p].alg
       /\ \A p \in Callers :
             (pc[p] = "fin_take" /\ pc'[p] = "fin_active")
                => /\ staged \in Candidates
                   /\ loc'[p].alg = staged
                   /\ staged' = None
                   /\ active' = active]_vars

C25_Witness ==
    /\ promoted # None
    /\ active = promoted
    /\ active # activeAtStart
    /\ pc[Worker] = "idle"
    /\ ret[Worker].op = "status"
    /\ ret[Worker].snap.active_algorithm = active

Terminal == {Complete, RollbackComplete, Failed}

(* C26: once the migration state is Complete, RollbackComplete or Failed,
   no step other than the write of a successful start_migration changes it;
   rollback_migration and advance_migration leave Complete as it is *)
C26_TerminalStatesStay ==
    [][(mstate \in Terminal /\ mstate' # mstate)
          => \E p \in Callers :
                /\ pc[p] = "start_write" /\ pc'[p] = "idle"
                /\ ret'[p].ok]_vars

FinalizePcs == {"fin_begin", "fin_take", "fin_active", "fin_state", "fin_status"}

(* no step of the ramp above the percentage pct is below 1.0 *)
LastStep(pct) ==
    \A i \in DOMAIN gradual_percentages :
        gradual_percentages[i] > pct => gradual_percentages[i] >= FullPercentage

(* C27: an advance_migration that read GradualMigration, finds the error
   rate within budget and has no ramp step below 1.0 left goes straight to
   finalize_migration: the state becomes Finalizing, then Complete, the call
   returns Complete, and GradualMigration with percentage 1.0 is never a
   state of the manager *)
C27_LastStepFinalizes ==
    [][/\ mstate' # GradualMigration(FullPercentage)
       /\ \A p \in Callers :
            /\ (/\ pc[p] = "adv_gradual" /\ pc'[p] # pc[p]
                /\ ~ExceedsBudget(metrics.rate_num, metrics.rate_den)
                /\ LastStep(loc[p].st.pct))
               => pc'[p] = "fin_begin" /\ mstate' = mstate
            /\ (pc[p] = "fin_begin" /\ pc'[p] # pc[p])
               => pc'[p] = "fin_take" /\ mstate' = Finalizing
            /\ (pc[p] \in {"fin_take", "fin_active"} /\ pc'[p] # pc[p])
               => pc'[p] \in FinalizePcs /\ mstate' = Finalizing
            /\ (pc[p] = "fin_state" /\ pc'[p] # pc[p])
               => pc'[p] = "fin_status" /\ mstate' = Complete
            /\ (pc[p] = "fin_status" /\ pc'[p] # pc[p])
               => /\ pc'[p] = "idle"
                  /\ mstate' = Complete
                  /\ ret'[p] = [Success("advance") EXCEPT !.st = Complete]]_vars

C27_Witness ==
    /\ pc[Driver] = "fin_begin"
    /\ loc[Driver].st = GradualMigration(LastRampStep)
    /\ mstate = GradualMigration(LastRampStep)
    /\ ~ExceedsBudget(metrics.rate_num, metrics.rate_den)

(* caller p takes a step of process_hash_request *)
ProcessStep(p) ==
    /\ pc'[p] # pc[p]
    /\ \/ loc[p].op = "process"
       \/ pc[p] = "idle" /\ pc'[p] = "proc"

(* C28: a request that read a state other than ShadowMode and
   GradualMigration is answered by the active engine alone and records no
   metric; no step of any request changes the staging status, the migration
   state, the active engine, the candidate or the validation report *)
C28_ProcessFrame ==
    [][\A p \in Callers :
          /\ ProcessStep(p)
             => UNCHANGED <<active, staged, status, mstate, report>>
          /\ (/\ ProcessStep(p)
              /\ pc[p] = "proc"
              /\ loc[p].st.tag \notin Migrating)
             => /\ pc'[p] = "idle"
                /\ ret'[p].op = "process"
                /\ ret'[p].res.by = active
                /\ ret'[p].ok = ret'[p].res.ok
                /\ metrics' = metrics
          /\ (pc[p] = "idle" /\ pc'[p] = "proc") => loc'[p].st = mstate]_vars

C28_Witness ==
    /\ pc[Worker] = "proc"
    /\ loc[Worker].st = RollingBack
    /\ mstate = RollbackComplete
    /\ pc[Driver] = "idle"
    /\ ret[Driver].op = "process"
    /\ ret[Driver].ok
    /\ ret[Driver].res.by = active
    /\ metrics.shadow_mode_successes > 0

CounterFields ==
    {"shadow_mode_successes", "shadow_mode_errors",
     "migration_successes", "migration_errors"}

(* the step adds one to the counter f and leaves the other three alone *)
GrowsByOne(f) ==
    /\ metrics'[f] = metrics[f] + 1
    /\ \A g \in CounterFields \ {f} : metrics'[g] = metrics[g]

ResetStep(p) == pc[p] = "start_metrics" /\ pc'[p] # pc[p]

(* C29: the reset of start_migration, which every successful call makes, sets
   the four counters and the error rate to zero; any other change of the
   metrics is a recorded outcome, which adds exactly one to the counter of
   that outcome and leaves the other three alone, so that no counter
   decreases between two resets, whatever the interleaving of the requests *)
C29_CountersResetAndGrow ==
    [][/\ \A p \in Callers :
            /\ ResetStep(p)
               => /\ \A f \in CounterFields : metrics'[f] = 0
                  /\ metrics'.rate_num = 0
                  /\ resets' = resets + 1
            /\ (pc'[p] = "idle" /\ pc[p] # "idle"
                /\ ret'[p].op = "start" /\ ret'[p].ok)
               => pc[p] = "start_write" /\ resets' = resets /\ resets > 0
            /\ (pc[p] = "proc_shadow_rec" /\ pc'[p] # pc[p])
               => GrowsByOne(IF loc[p].sres.ok THEN "shadow_mode_successes"
                                               ELSE "shadow_mode_errors")
            /\ (pc[p] = "proc_mig_rec" /\ pc'[p] # pc[p])
               => GrowsByOne(IF loc[p].sres.ok THEN "migration_successes"
                                               ELSE "migration_errors")
       /\ metrics' # metrics
            => \E p \in Callers :
                  \/ ResetStep(p)
                  \/ pc[p] \in {"proc_shadow_rec", "proc_mig_rec"} /\ pc'[p] = "idle"
       /\ (\A p \in Callers : ~ResetStep(p))
            => \A f \in CounterFields : metrics'[f] >= metrics[f]]_vars

C29_Witness ==
    /\ resets = 2
    /\ pc[Driver] = "proc_shadow_rec"
    /\ pc[Worker] = "proc_shadow_rec"
    /\ metrics.shadow_mode_errors > 0
    /\ metrics.shadow_mode_successes > 0
    /\ metrics.shadow_mode_successes < ShadowSampleThreshold

(* the rate rate_num / rate_den of the metrics m is the share of failures
   among the gradual-migration outcomes counted in m, and 0 when there is
   none *)
RateIsErrorShare(m) ==
    LET total == m.migration_successes + m.migration_errors
    IN  /\ m.rate_den > 0
        /\ IF total = 0
             THEN m.rate_num = 0
             ELSE m.rate_num * total = m.migration_errors * m.rate_den

(* C30: after every recorded gradual-migration outcome, and in every other
   state, the error rate is migration_errors / (migration_successes +
   migration_errors) over the outcomes counted since the last reset, 0 when
   there is none; a recorded shadow outcome leaves it as it is *)
C30_ErrorRateIsErrorShare ==
    [][/\ RateIsErrorShare(metrics')
       /\ \A p \in Callers :
            (pc[p] = "proc_shadow_rec" /\ pc'[p] # pc[p])
               => /\ metrics'.rate_num = metrics.rate_num
                  /\ metrics'.rate_den = metrics.rate_den
                  /\ metrics'.migration_successes = metrics.migration_successes
                  /\ metrics'.migration_errors = metrics.migration_errors]_vars

C30_Witness ==
    /\ metrics.migration_errors = 1
    /\ metrics.migration_successes = 1
    /\ metrics.rate_num = 1
    /\ metrics.rate_den = 2
    /\ metrics.shadow_mode_errors > 0
    /\ \E p \in Callers :
          /\ pc[p] = "idle"
          /\ ret[p].op = "process"
          /\ ret[p].res.by = staged

(* the three blocking checks of the report r are all true *)
BlockingChecksPass(r) ==
    r.compatibility_check /\ r.security_validation /\ r.test_vectors_passed

(* C31: a report is a success exactly when the compatibility, security and
   test-vector checks are true and its error list is empty; a score below
   the threshold or a failed memory check adds one warning each and no
   error, so a report whose three blocking checks pass ends in
   ValidationPassed whatever the score and the memory check *)
C31_ValidationVerdict ==
    [][\A p \in Callers :
          /\ (pc[p] = "val_wait" /\ pc'[p] = "val_built")
             => LET r == loc'[p].results
                IN  /\ BlockingChecksPass(r) <=> r.errors = <<>>
                    /\ Len(r.warnings)
                         = (IF r.performance_benchmark < PerformanceThreshold THEN 1 ELSE 0)
                           + (IF r.memory_requirements_met THEN 0 ELSE 1)
          /\ (pc[p] = "val_verdict" /\ pc'[p] = "idle")
             => LET r == loc[p].results
                IN  /\ status' \in {"ValidationPassed", "ValidationFailed"}
                    /\ status' = "ValidationPassed"
                         <=> (BlockingChecksPass(r) /\ r.errors = <<>>)
                    /\ BlockingChecksPass(r) => status' = "ValidationPassed"
                    /\ ret'[p].ok <=> status' = "ValidationPassed"
                    /\ report = r]_vars

C31_Witness ==
    /\ status = "ValidationPassed"
    /\ pc[Driver] = "idle"
    /\ ret[Driver].op = "stage" /\ ret[Driver].ok
    /\ report.some
    /\ report.performance_benchmark < PerformanceThreshold
    /\ ~report.memory_requirements_met
    /\ Len(report.warnings) = 2
    /\ report.errors = <<>>

(* caller p is at a write of an engine slot that a hash in flight, which
   holds the read guard of that slot, makes it wait for *)
WaitsForHash(p) ==
    \/ pc[p] = "fin_active" /\ ActiveReadHeld
    \/ pc[p] \in {"fin_take", "rb_staged", "stage_store"} /\ StagedReadHeld

(* C32: no hash runs under a guard of an engine slot, so no finalize and no
   rollback is ever at a write of a slot that a hash in flight keeps it
   from *)
C32_NoLockAcrossHash ==
    \A p \in Callers : ~WaitsForHash(p)

(* caller p takes an engine out of the candidate slot in finalize_migration *)
TakesCandidate(p) == pc[p] = "fin_take" /\ pc'[p] = "fin_active"

(* C33: the engine that finalize_migration takes out of the candidate slot,
   and then makes active, is a validated one: when it is taken the staging
   status is ValidationPassed and the stored report is its own and a
   success, never Staging or ValidationInProgress *)
C33_PromotesValidatedCandidate ==
    [][\A p \in Callers :
          TakesCandidate(p)
             => /\ status = "ValidationPassed"
                /\ report = RunValidation(staged)
                /\ is_validation_successful(report)]_vars

(* no call other than requests is in progress *)
NoControlCall == \A p \in Callers : pc[p] = "idle" \/ loc[p].op = "process"

(* C34: whenever no control-plane call is in progress the migration state
   is neither Finalizing nor RollingBack *)
C34_NoTransientStateLeft ==
    NoControlCall => mstate \notin {Finalizing, RollingBack}

(* C35: whenever no control-plane call is in progress, the staging status
   ValidationPassed implies that the candidate slot holds an engine; and a
   start_migration that writes ShadowMode finds an engine there *)
C35_PassedImpliesCandidate ==
    /\ (NoControlCall /\ status = "ValidationPassed") => staged # None
    /\ \A p \in Callers :
          (pc[p] = "idle" /\ ret[p].op = "start" /\ ret[p].ok
             /\ NoControlCall /\ mstate.tag = "ShadowMode")
          => staged # None

InFlight(p) == pc[p] # "idle"

CanStep(p) == ENABLED LockStep(p)

(* C36: no caller waits forever for a lock, because the locks never form a
   cycle: whenever calls are in progress, at least one of them can take
   its next step, so a caller that waits for a guard waits for a call that
   goes on to release it *)
C36_NoLockCycle ==
    (\E p \in Callers : InFlight(p)) =>
        \E q \in Callers : InFlight(q) /\ CanStep(q)

(* finalize_migration holds the staged slot and waits for the status while
   get_status holds the status and goes on to the state *)
C36_Witness ==
    \E p, q \in Callers :
        /\ pc[p] = "fin_status"
        /\ pc[q] = "gs_state"
        /\ ~CanStep(p)
        /\ CanStep(q)

(* no request was served by the candidate since start_migration *)
NoGradualSample == metrics.migration_successes + metrics.migration_errors = 0

(* C37: in GradualMigration advance_migration asks for no minimum number
   of samples: when the candidate has served no request since
   start_migration, the guard of each advance passes and the call moves to
   the next ramp step or, from the last one, to the finalization *)
C37_AdvanceNeedsNoSample ==
    [][\A p \in Callers :
          (pc[p] = "adv_gradual" /\ pc'[p] # pc[p] /\ NoGradualSample)
          => \/ /\ pc'[p] = "adv_gradual_write"
                /\ loc'[p].new_state.tag = "GradualMigration"
                /\ loc'[p].new_state.pct > loc[p].st.pct
             \/ /\ pc'[p] = "fin_begin"
                /\ loc[p].st = GradualMigration(LastRampStep)]_vars

(* a candidate promoted without having served a request of the ramp *)
C37_Witness ==
    /\ mstate = Complete
    /\ pc[Driver] = "idle"
    /\ ret[Driver] = [Success("advance") EXCEPT !.st = Complete]
    /\ active = promoted
    /\ promoted # None
    /\ NoGradualSample

(* a step in which the advance_migration of caller p returns *)
AdvanceReturns(p) ==
    /\ pc'[p] = "idle"
    /\ ret'[p] # ret[p]
    /\ ret'[p].op = "advance"

(* C38: advance_migration returns an error only when it was called from a
   state other than ShadowMode and GradualMigration or when its
   finalization finds no candidate; a call whose guard failed, and which
   rolled back, returns a success carrying RollbackComplete; so a success
   of advance_migration carries GradualMigration, Complete or
   RollbackComplete *)
C38_AdvanceResults ==
    [][\A p \in Callers :
          AdvanceReturns(p) =>
            /\ ~ret'[p].ok =>
                 \/ /\ ret'[p] = Error("advance", "INVALID_MIGRATION_STATE")
                    /\ pc[p] = "idle"
                    /\ mstate.tag \notin Migrating
                 \/ /\ ret'[p] = Error("advance", "NO_STAGED_ALGORITHM")
                    /\ pc[p] = "fin_take"
                    /\ staged = None
            /\ pc[p] \in RollbackPcs =>
                 ret'[p] = [Success("advance") EXCEPT !.st = RollbackComplete]
            /\ ret'[p].ok =>
                 /\ ret'[p].st.tag \in {"GradualMigration", "Complete", "RollbackComplete"}
                 /\ ret'[p] = [Success("advance") EXCEPT !.st = ret'[p].st]]_vars

(* both errors and the success of a failed guard have been returned *)
C38_Witness ==
    \E p, q \in Callers :
        /\ pc[p] = "idle"
        /\ pc[q] = "idle"
        /\ ret[p] = Error("advance", "NO_STAGED_ALGORITHM")
        /\ ret[q] = [Success("advance") EXCEPT !.st = RollbackComplete]
        /\ mstate.tag \notin Migrating

(* C39: the stored validation report belongs to the staged candidate:
   whenever no control-plane call is in progress and the staging status is
   NotStaged, the validation report is absent *)
C39_NoReportWhenNotStaged ==
    (NoControlCall /\ status = "NotStaged") => report = NoReport

====
